---- MODULE Spec2Model ----
(***************************************************************************)
(* A model of wasmer-postgres: the process-wide instance registry          *)
(* (src/src/instance.rs, get_instances / new_instance), the invocation     *)
(* bridge (invoke_function and its fixed-arity entry points) and the       *)
(* exported-functions foreign data wrapper                                 *)
(* (src/src/foreign_data_wrappers/exported_functions.rs).                  *)
(*                                                                         *)
(* Callers are threads of one process.  The registry is the static         *)
(* INSTANCES: an Option holding, in place, a reader-writer lock word and   *)
(* a hash map.  get_instances reads and writes that static without any     *)
(* synchronisation, so its test and its assignment are separate steps.     *)
(***************************************************************************)
EXTENDS Integers, Sequences, FiniteSets, TLC

(***************************************************************************)
(* Bounds of the model.                                                    *)
(***************************************************************************)
NumProcs == 2
MaxOps == 3

Procs == 1..NumProcs

(***************************************************************************)
(* 64-bit integers.  A host argument or result is an i64; it is kept as    *)
(* its two 32-bit halves, each held as the i32 with the same bit pattern,  *)
(* so that `as i32` and `as i64` are computed on the real widths.          *)
(***************************************************************************)
MaxI32 == 2147483647
MinI32 == -MaxI32 - 1

I64(hi, lo) == [hi |-> hi, lo |-> lo]

\* `value as i64` for an i32: sign extension.
I32AsI64(v) == I64(IF v < 0 THEN -1 ELSE 0, v)

\* A variant that clamps to the i32 range instead of wrapping.
I64AsI32Saturating(a) ==
  IF (a.hi = 0 /\ a.lo >= 0) \/ (a.hi = -1 /\ a.lo < 0) THEN a.lo
  ELSE IF a.hi >= 0 THEN MaxI32 ELSE MinI32

\* `*argument as i32` for an i64: the low 32 bits.
I64AsI32(a) == a.lo

\* i32.add of the guest: two's complement addition, wrapping.
I32WrappingAdd(a, b) ==
  IF a >= 0 /\ b >= 0 /\ a > MaxI32 - b
    THEN ((a - MaxI32) + (b - MaxI32)) - 2
    ELSE IF a < 0 /\ b < 0 /\ a < MinI32 - b
           THEN ((a + MaxI32) + (b + MaxI32)) + 2
           ELSE a + b

(***************************************************************************)
(* The guest engine's type vocabulary and values (wasmer::Type, Value).    *)
(***************************************************************************)
Types == {"I32", "I64", "F32", "F64", "V128", "ExternRef", "FuncRef"}

ValueI32(v) == [ty |-> "I32", i32 |-> v, i64 |-> I64(0, 0)]
ValueI64(v) == [ty |-> "I64", i32 |-> 0, i64 |-> v]
ValueF32 == [ty |-> "F32", i32 |-> 0, i64 |-> I64(0, 0)]

(***************************************************************************)
(* The files the callers name, and what the guest engine makes of their    *)
(* bytes.  The engine is a black box to the repository: Module::new        *)
(* accepts or rejects bytes, Instance::new instantiates a module with the  *)
(* empty import object or fails, and an instance has exports in            *)
(* declaration order.                                                      *)
(***************************************************************************)
SumBytes == <<0, 97, 1>>
OtherBytes == <<0, 97, 2>>
ImportsBytes == <<0, 97, 3>>
RefsBytes == <<0, 97, 4>>
GarbageBytes == <<7, 7>>

\* File::open and read_to_end on each path.
Files ==
  [p \in {"sum.wasm", "copy.wasm", "other.wasm", "refs.wasm", "imports.wasm",
          "garbage.wasm", "missing.wasm", "dir"} |->
     CASE p = "sum.wasm" -> [open |-> TRUE, read |-> TRUE, bytes |-> SumBytes]
       [] p = "copy.wasm" -> [open |-> TRUE, read |-> TRUE, bytes |-> SumBytes]
       [] p = "other.wasm" -> [open |-> TRUE, read |-> TRUE, bytes |-> OtherBytes]
       [] p = "refs.wasm" -> [open |-> TRUE, read |-> TRUE, bytes |-> RefsBytes]
       [] p = "imports.wasm" -> [open |-> TRUE, read |-> TRUE, bytes |-> ImportsBytes]
       [] p = "garbage.wasm" -> [open |-> TRUE, read |-> TRUE, bytes |-> GarbageBytes]
       [] p = "missing.wasm" -> [open |-> FALSE, read |-> FALSE, bytes |-> <<>>]
       [] p = "dir" -> [open |-> TRUE, read |-> FALSE, bytes |-> <<>>]]

Paths == DOMAIN Files

Fn(name, params, results, body) ==
  [name |-> name, kind |-> "Function", params |-> params, results |-> results,
   body |-> body]
NonFn(name, kind) ==
  [name |-> name, kind |-> kind, params |-> <<>>, results |-> <<>>, body |-> "none"]

\* The exports of the sum module, in declaration order.
SumExports ==
  << NonFn("memory", "Memory"),
     Fn("sum", <<"I32", "I32">>, <<"I32">>, "add32"),
     Fn("id64", <<"I64">>, <<"I64">>, "id64"),
     Fn("answer", <<>>, <<"I32">>, "const42"),
     Fn("mixed", <<"I32", "F64">>, <<"I32">>, "first"),
     Fn("spin", <<>>, <<>>, "loop"),
     Fn("trap", <<>>, <<>>, "unreachable"),
     Fn("pair", <<>>, <<"I32", "I32">>, "pair"),
     Fn("fconst", <<>>, <<"F32">>, "fconst"),
     Fn("tenth", [i \in 1..10 |-> IF i % 2 = 1 THEN "I64" ELSE "I32"], <<"I32">>,
        "tenth") >>

\* The exports of the other module.
OtherExports ==
  << Fn("noop", <<"I64", "I32">>, <<>>, "nop"),
     NonFn("g", "Global"),
     Fn("vec", <<"I64", "V128">>, <<>>, "nop"),
     Fn("fl", <<"F32", "I32">>, <<>>, "nop") >>

\* The exports of the module with reference-typed signatures.
RefsExports ==
  << Fn("keep", <<"I32">>, <<"I32">>, "first"),
     Fn("byref", <<"ExternRef">>, <<"FuncRef">>, "nop"),
     Fn("cb", <<"I32", "FuncRef">>, <<>>, "nop") >>

\* Module::new(&store, &bytes): Ok(module) or Err.
ModuleNew(bytes) ==
  CASE bytes = SumBytes -> [ok |-> TRUE, imports |-> FALSE, exports |-> SumExports]
    [] bytes = OtherBytes -> [ok |-> TRUE, imports |-> FALSE, exports |-> OtherExports]
    [] bytes = RefsBytes -> [ok |-> TRUE, imports |-> FALSE, exports |-> RefsExports]
    [] bytes = ImportsBytes -> [ok |-> TRUE, imports |-> TRUE, exports |-> <<>>]
    [] OTHER -> [ok |-> FALSE, imports |-> FALSE, exports |-> <<>>]

\* Instance::new(&module, &imports! {}): fails when the module needs imports.
InstanceNew(module) ==
  IF module.imports
    THEN [ok |-> FALSE, exports |-> <<>>]
    ELSE [ok |-> TRUE, exports |-> module.exports]

(***************************************************************************)
(* The registry key: a version-5 UUID, in the OID namespace, of the        *)
(* textual digest of the bytes.                                            *)
(***************************************************************************)
HashModulus == 65521

RECURSIVE HashGenerate(_)
\* wasmer_cache::Hash::generate(bytes): a digest of the bytes alone.
HashGenerate(bytes) ==
  IF bytes = <<>> THEN 1
  ELSE (HashGenerate(SubSeq(bytes, 1, Len(bytes) - 1)) * 31 + bytes[Len(bytes)] + 1)
         % HashModulus

\* Hash::to_string: the digest as hexadecimal digits.
HashToString(h) ==
  << (h \div 4096) % 16, (h \div 256) % 16, (h \div 16) % 16, h % 16 >>

\* Uuid::new_v5(&NAMESPACE_OID, name).to_hyphenated().to_string()
UuidV5(name) == <<"6ba7b812">> \o name

KeyOf(bytes) == UuidV5(HashToString(HashGenerate(bytes)))

UnknownId == UuidV5(<<15, 15, 15, 15>>)

(***************************************************************************)
(* The guest: what each exported function computes when called.            *)
(***************************************************************************)
\* Function::call(&self, params): Ok(results) or Err(trap).  A body "loop"
\* never returns and has no result here.
GuestCall(function, args) ==
  CASE function.body = "add32" ->
         [ok |-> TRUE, results |-> <<ValueI32(I32WrappingAdd(args[1].i32, args[2].i32))>>]
    [] function.body = "id64" -> [ok |-> TRUE, results |-> <<args[1]>>]
    [] function.body = "first" -> [ok |-> TRUE, results |-> <<args[1]>>]
    [] function.body = "tenth" -> [ok |-> TRUE, results |-> <<args[10]>>]
    [] function.body = "const42" -> [ok |-> TRUE, results |-> <<ValueI32(42)>>]
    [] function.body = "pair" -> [ok |-> TRUE, results |-> <<ValueI32(1), ValueI32(2)>>]
    [] function.body = "fconst" -> [ok |-> TRUE, results |-> <<ValueF32>>]
    [] function.body = "nop" -> [ok |-> TRUE, results |-> <<>>]
    [] OTHER -> [ok |-> FALSE, results |-> <<>>]

(***************************************************************************)
(* The invocation bridge's pure steps (invoke_function).                   *)
(***************************************************************************)
NoFunction == NonFn("", "none")

\* A variant that gives the export of that name whatever its kind.
GetFunctionAnyKind(instance, function_name) ==
  LET hits == {i \in 1..Len(instance.exports) :
                 instance.exports[i].name = function_name}
  IN IF hits = {} THEN NoFunction ELSE instance.exports[CHOOSE i \in hits : TRUE]

\* instance.exports.get_function(&function_name): the export of that name when
\* it is a function, NoFunction otherwise.
GetFunction(instance, function_name) ==
  LET hits == {i \in 1..Len(instance.exports) :
                 /\ instance.exports[i].name = function_name
                 /\ instance.exports[i].kind = "Function"}
  IN IF hits = {} THEN NoFunction ELSE instance.exports[CHOOSE i \in hits : TRUE]

\* A variant that rejects only missing arguments (diff > 0).
ArityTooFew(parameters, arguments) == Len(parameters) - Len(arguments) > 0

\* diff != 0
ArityDiffers(parameters, arguments) == Len(parameters) - Len(arguments) # 0

\* A variant that lets floating-point parameters through.
SupportedOrFloat(parameter) == parameter \in {"I32", "I64", "F32", "F64"}

\* The parameter types the match has an arm for: Type::I32, Type::I64.
Supported(parameter) == parameter \in {"I32", "I64"}

\* One parameter's value: Value::I32(*argument as i32), Value::I64(*argument).
CoerceOne(parameter, argument) ==
  IF parameter = "I32" THEN ValueI32(I64AsI32(argument)) ELSE ValueI64(argument)

\* The loop over parameters.iter().zip(arguments.iter()): the values pushed, or
\* the early return at the first parameter that is neither I32 nor I64.
ZipLen(parameters, arguments) ==
  IF Len(parameters) < Len(arguments) THEN Len(parameters) ELSE Len(arguments)
CoerceArguments(parameters, arguments) ==
  LET n == ZipLen(parameters, arguments)
  IN IF \E i \in 1..n : ~Supported(parameters[i])
       THEN [ok |-> FALSE, values |-> <<>>]
       ELSE [ok |-> TRUE,
             values |-> [i \in 1..n |-> CoerceOne(parameters[i], arguments[i])]]

\* The match on the results of a successful call: Some(i64) or None.
NoValue == [some |-> FALSE, value |-> I64(0, 0)]
SomeValue(v) == [some |-> TRUE, value |-> v]
\* A variant that looks at the first result whatever their number.
ShapeFirstResult(results) ==
  IF Len(results) >= 1
    THEN CASE results[1].ty = "I32" -> SomeValue(I32AsI64(results[1].i32))
           [] results[1].ty = "I64" -> SomeValue(results[1].i64)
           [] OTHER -> NoValue
    ELSE NoValue

ShapeResults(results) ==
  IF Len(results) = 1
    THEN CASE results[1].ty = "I32" -> SomeValue(I32AsI64(results[1].i32))
           [] results[1].ty = "I64" -> SomeValue(results[1].i64)
           [] OTHER -> NoValue
    ELSE NoValue

(***************************************************************************)
(* State.                                                                  *)
(***************************************************************************)
VARIABLES
  isSome,      \* INSTANCES.is_some()
  map,         \* the HashMap<String, InstanceInfo> held in INSTANCES
  lock,        \* the RwLock's word held in INSTANCES
  guard,       \* the lock guard each caller holds: "none", "read" or "write"
  pc,          \* where each caller is in its operation
  op,          \* each caller's current operation and its arguments
  loc,         \* each caller's local variables
  ret,         \* what each caller's last operation returned
  fault,       \* the panic or memory fault that ended the process, if any
  started,     \* operations started so far
  generation,  \* how many times INSTANCES has been assigned
  regOf,       \* the generation of the registry each caller last obtained
  loaded,      \* <<bytes, key, n>>: the n-th load of these bytes returned Some(key)
  ncalls,      \* guest calls made by each caller's current operation
  dangling     \* callers whose borrowed InstanceInfo was dropped under them

vars == <<isSome, map, lock, guard, pc, op, loc, ret, fault, started,
          generation, regOf, loaded, ncalls, dangling>>

EmptyMap == [k \in {} |-> 0]
Unlocked == [writer |-> FALSE, readers |-> 0]

Op(kind, wasm_file, instance_id, function_name, arguments) ==
  [kind |-> kind, wasm_file |-> wasm_file, instance_id |-> instance_id,
   function_name |-> function_name, arguments |-> arguments]
NoOp == Op("none", "", UnknownId, "", <<>>)
LoadOp(wasm_file) == Op("new_instance", wasm_file, UnknownId, "", <<>>)
InvokeOp(instance_id, function_name, arguments) ==
  Op("invoke_function", "", instance_id, function_name, arguments)
ListOp == Op("exported_functions", "", UnknownId, "", <<>>)

NoLocals ==
  [bytes |-> <<>>, module |-> ModuleNew(<<>>), instance |-> InstanceNew(ModuleNew(<<>>)),
   function |-> NoFunction, function_arguments |-> <<>>, inner |-> <<>>, rows |-> <<>>]

\* A return value: None (with the error! message that preceded it, if any),
\* Some(key) of a load, Some(i64) of an invoke, or the rows an iteration yielded.
Ret(tag, id, value, err, rows) ==
  [tag |-> tag, id |-> id, value |-> value, err |-> err, rows |-> rows]
Pending == Ret("pending", UnknownId, I64(0, 0), "", <<>>)
RetNone(err) == Ret("None", UnknownId, I64(0, 0), err, <<>>)
RetKey(key) == Ret("Some", key, I64(0, 0), "", <<>>)
RetValue(v) == Ret("Some", UnknownId, v, "", <<>>)
RetRows(rows) == Ret("rows", UnknownId, I64(0, 0), "", rows)

NoFault == [by |-> 0, at |-> "none"]

Init ==
  /\ isSome = FALSE
  /\ map = EmptyMap
  /\ lock = Unlocked
  /\ guard = [p \in Procs |-> "none"]
  /\ pc = [p \in Procs |-> "idle"]
  /\ op = [p \in Procs |-> NoOp]
  /\ loc = [p \in Procs |-> NoLocals]
  /\ ret = [p \in Procs |-> Pending]
  /\ fault = NoFault
  /\ started = 0
  /\ generation = 0
  /\ regOf = [p \in Procs |-> 0]
  /\ loaded = {}
  /\ ncalls = [p \in Procs |-> 0]
  /\ dangling = [p \in Procs |-> FALSE]

(***************************************************************************)
(* std::sync::RwLock on the word in INSTANCES.  A guard's drop changes the *)
(* word without looking at who locked it; when the word does not record    *)
(* the guard (INSTANCES was assigned again while the guard was held), the  *)
(* resulting word is undefined.                                            *)
(***************************************************************************)
LockWords == [writer : BOOLEAN, readers : 0..NumProcs]

CanRead(word) == ~word.writer
CanWrite(word) == ~word.writer /\ word.readers = 0

ReadLocked(word) == [word EXCEPT !.readers = @ + 1]
WriteLocked(word) == [word EXCEPT !.writer = TRUE]

\* The words a guard's drop can leave.
ReadUnlocked(word) ==
  IF word.readers > 0 THEN {[word EXCEPT !.readers = @ - 1]} ELSE LockWords
WriteUnlocked(word) ==
  IF word.writer THEN {[word EXCEPT !.writer = FALSE]} ELSE LockWords

Dropped(word, g) ==
  CASE g = "read" -> ReadUnlocked(word)
    [] g = "write" -> WriteUnlocked(word)
    [] OTHER -> {word}

(***************************************************************************)
(* A caller starts an operation.                                           *)
(***************************************************************************)
Start(p, ops) ==
  /\ fault = NoFault
  /\ pc[p] \in {"idle", "done"}
  /\ started < MaxOps
  /\ \E o \in ops :
       /\ op' = [op EXCEPT ![p] = o]
       /\ pc' = [pc EXCEPT ![p] = IF o.kind = "new_instance" THEN "open"
                                   ELSE "get_instances"]
  /\ started' = started + 1
  /\ ret' = [ret EXCEPT ![p] = Pending]
  /\ loc' = [loc EXCEPT ![p] = NoLocals]
  /\ ncalls' = [ncalls EXCEPT ![p] = 0]
  /\ UNCHANGED <<isSome, map, lock, guard, fault, generation, regOf, loaded, dangling>>

\* The operation returns r: its locals go, its guard (if any) is dropped.
Return(p, r) ==
  /\ pc' = [pc EXCEPT ![p] = "done"]
  /\ ret' = [ret EXCEPT ![p] = r]
  /\ \E w \in Dropped(lock, guard[p]) : lock' = w
  /\ guard' = [guard EXCEPT ![p] = "none"]
  /\ loc' = [loc EXCEPT ![p] = NoLocals]
  /\ dangling' = [dangling EXCEPT ![p] = FALSE]

\* A panic reaches the extern "C" boundary: the process ends.
Panic(p, at) ==
  /\ fault' = [by |-> p, at |-> at]
  /\ UNCHANGED <<isSome, map, lock, guard, pc, op, loc, ret, started,
                 generation, regOf, loaded, ncalls, dangling>>

(***************************************************************************)
(* get_instances, lines 14-23: the test of INSTANCES and its assignment.   *)
(***************************************************************************)
\* if INSTANCES.is_none(); when it is Some, &INSTANCES.as_ref().unwrap()
GetInstancesTest(p) ==
  /\ fault = NoFault
  /\ pc[p] = "get_instances"
  /\ pc' = [pc EXCEPT ![p] = IF isSome THEN "lock" ELSE "get_instances_init"]
  /\ regOf' = [regOf EXCEPT ![p] = IF isSome THEN generation ELSE @]
  /\ UNCHANGED <<isSome, map, lock, guard, op, loc, ret, fault, started,
                 generation, loaded, ncalls, dangling>>

\* The callers that hold a borrow into the map's storage: an invoke between its
\* lookup and its return.
Borrows(q) == pc[q] \in {"arity", "coerce", "call", "guest"}

\* INSTANCES = Some(RwLock::new(HashMap::new())): whatever INSTANCES held is
\* dropped and replaced, in place, by an unlocked lock and an empty map.
GetInstancesInit(p) ==
  /\ fault = NoFault
  /\ pc[p] = "get_instances_init"
  /\ isSome' = TRUE
  /\ map' = EmptyMap
  /\ lock' = Unlocked
  /\ generation' = generation + 1
  /\ regOf' = [regOf EXCEPT ![p] = generation + 1]
  /\ dangling' = [q \in Procs |-> dangling[q] \/ (isSome /\ Borrows(q))]
  /\ pc' = [pc EXCEPT ![p] = "lock"]
  /\ UNCHANGED <<guard, op, loc, ret, fault, started, loaded, ncalls>>

\* .read().unwrap()
Read(p) ==
  /\ fault = NoFault
  /\ pc[p] = "lock"
  /\ op[p].kind # "new_instance"
  /\ CanRead(lock)
  /\ lock' = ReadLocked(lock)
  /\ guard' = [guard EXCEPT ![p] = "read"]
  /\ pc' = [pc EXCEPT ![p] = IF op[p].kind = "invoke_function" THEN "get" ELSE "collect"]
  /\ UNCHANGED <<isSome, map, op, loc, ret, fault, started, generation, regOf,
                 loaded, ncalls, dangling>>

\* .write().unwrap()
Write(p) ==
  /\ fault = NoFault
  /\ pc[p] = "lock"
  /\ op[p].kind = "new_instance"
  /\ CanWrite(lock)
  /\ lock' = WriteLocked(lock)
  /\ guard' = [guard EXCEPT ![p] = "write"]
  /\ pc' = [pc EXCEPT ![p] = "insert"]
  /\ UNCHANGED <<isSome, map, op, loc, ret, fault, started, generation, regOf,
                 loaded, ncalls, dangling>>

(***************************************************************************)
(* new_instance, lines 26-79.                                              *)
(***************************************************************************)
\* File::open(&wasm_file)
Open(p) ==
  /\ fault = NoFault
  /\ pc[p] = "open"
  /\ IF Files[op[p].wasm_file].open
       THEN /\ pc' = [pc EXCEPT ![p] = "read"]
            /\ UNCHANGED <<ret, lock, guard, loc, dangling>>
       ELSE Return(p, RetNone("error opening"))
  /\ UNCHANGED <<isSome, map, op, fault, started, generation, regOf, loaded, ncalls>>

\* file.read_to_end(&mut bytes)
ReadToEnd(p) ==
  /\ fault = NoFault
  /\ pc[p] = "read"
  /\ IF Files[op[p].wasm_file].read
       THEN /\ pc' = [pc EXCEPT ![p] = "compile"]
            /\ loc' = [loc EXCEPT ![p].bytes = Files[op[p].wasm_file].bytes]
            /\ UNCHANGED <<ret, lock, guard, dangling>>
       ELSE Return(p, RetNone("error reading"))
  /\ UNCHANGED <<isSome, map, op, fault, started, generation, regOf, loaded, ncalls>>

\* Module::new(&store, &bytes).unwrap()
Compile(p) ==
  /\ fault = NoFault
  /\ pc[p] = "compile"
  /\ LET module == ModuleNew(loc[p].bytes)
     IN IF module.ok
          THEN /\ pc' = [pc EXCEPT ![p] = "instantiate"]
               /\ loc' = [loc EXCEPT ![p].module = module]
               /\ UNCHANGED <<isSome, map, lock, guard, op, ret, fault, started,
                              generation, regOf, loaded, ncalls, dangling>>
          ELSE Panic(p, "Module::new unwrap")

\* A variant that registers whatever Instance::new gave, Ok or Err.
InstantiateUnchecked(p) ==
  /\ fault = NoFault
  /\ pc[p] = "instantiate"
  /\ pc' = [pc EXCEPT ![p] = "get_instances"]
  /\ loc' = [loc EXCEPT ![p].instance = InstanceNew(loc[p].module)]
  /\ UNCHANGED <<isSome, map, lock, guard, op, ret, fault, started, generation,
                 regOf, loaded, ncalls, dangling>>

\* match Instance::new(&module, &import_object)
Instantiate(p) ==
  /\ fault = NoFault
  /\ pc[p] = "instantiate"
  /\ LET instance == InstanceNew(loc[p].module)
     IN IF instance.ok
          THEN /\ pc' = [pc EXCEPT ![p] = "get_instances"]
               /\ loc' = [loc EXCEPT ![p].instance = instance]
               /\ UNCHANGED <<ret, lock, guard, dangling>>
          ELSE Return(p, RetNone("error instantiating"))
  /\ UNCHANGED <<isSome, map, op, fault, started, generation, regOf, loaded, ncalls>>

InstanceInfo(instance, wasm_file) == [instance |-> instance, wasm_file |-> wasm_file]

\* HashMap::insert: the entry under key is added or replaced.
MapInsert(m, key, info) ==
  [k \in DOMAIN m \cup {key} |-> IF k = key THEN info ELSE m[k]]

\* Lines 55-72: the key, instances.insert(key, InstanceInfo {..}), Some(key); the
\* write guard is dropped as the arm ends.
Insert(p) ==
  /\ fault = NoFault
  /\ pc[p] = "insert"
  /\ LET key == KeyOf(loc[p].bytes)
     IN /\ map' = MapInsert(map, key, InstanceInfo(loc[p].instance, op[p].wasm_file))
        /\ loaded' = loaded \cup
             {<<loc[p].bytes, key, 1 + Cardinality({x \in loaded : x[1] = loc[p].bytes})>>}
        /\ Return(p, RetKey(key))
  /\ UNCHANGED <<isSome, op, fault, started, generation, regOf, ncalls>>

(***************************************************************************)
(* invoke_function, lines 81-161.  The read guard `instances` is a local   *)
(* of the whole function body: it is dropped when the function returns.    *)
(***************************************************************************)
\* The error! message that precedes each return of None.
InstanceNotFound == "Instance with ID isn't found"
FunctionNotFound == "Exported function does not exist in instance"
ArityMismatch == "Invalid number of arguments"
UnsupportedArgumentType == "one of its argument expect a float"
ExecutionFault == "Failed to call the exported function"

\* Lines 84-96: instances.get(&instance_id), instance.exports.get_function(..)
Get(p) ==
  /\ fault = NoFault
  /\ pc[p] = "get"
  /\ IF op[p].instance_id \in DOMAIN map
       THEN LET function == GetFunction(map[op[p].instance_id].instance,
                                        op[p].function_name)
            IN IF function # NoFunction
                 THEN /\ pc' = [pc EXCEPT ![p] = "arity"]
                      /\ loc' = [loc EXCEPT ![p].function = function]
                      /\ UNCHANGED <<ret, lock, guard, dangling>>
                 ELSE Return(p, RetNone(FunctionNotFound))
       ELSE Return(p, RetNone(InstanceNotFound))
  /\ UNCHANGED <<isSome, map, op, fault, started, generation, regOf, loaded, ncalls>>

\* A variant that looks at the parameter types before the counts.
CheckArityAfterTypes(p) ==
  /\ fault = NoFault
  /\ pc[p] = "arity"
  /\ IF ~CoerceArguments(loc[p].function.params, op[p].arguments).ok
       THEN Return(p, RetNone(UnsupportedArgumentType))
       ELSE IF ArityDiffers(loc[p].function.params, op[p].arguments)
              THEN Return(p, RetNone(ArityMismatch))
              ELSE /\ pc' = [pc EXCEPT ![p] = "coerce"]
                   /\ UNCHANGED <<ret, lock, guard, loc, dangling>>
  /\ UNCHANGED <<isSome, map, op, fault, started, generation, regOf, loaded, ncalls>>

\* Lines 98-111: the parameter count against the argument count.
CheckArity(p) ==
  /\ fault = NoFault
  /\ pc[p] = "arity"
  /\ IF ArityDiffers(loc[p].function.params, op[p].arguments)
       THEN Return(p, RetNone(ArityMismatch))
       ELSE /\ pc' = [pc EXCEPT ![p] = "coerce"]
            /\ UNCHANGED <<ret, lock, guard, loc, dangling>>
  /\ UNCHANGED <<isSome, map, op, fault, started, generation, regOf, loaded, ncalls>>

\* Lines 113-130: function_arguments.
Coerce(p) ==
  /\ fault = NoFault
  /\ pc[p] = "coerce"
  /\ LET c == CoerceArguments(loc[p].function.params, op[p].arguments)
     IN IF c.ok
          THEN /\ pc' = [pc EXCEPT ![p] = "call"]
               /\ loc' = [loc EXCEPT ![p].function_arguments = c.values]
               /\ UNCHANGED <<ret, lock, guard, dangling>>
          ELSE Return(p, RetNone(UnsupportedArgumentType))
  /\ UNCHANGED <<isSome, map, op, fault, started, generation, regOf, loaded, ncalls>>

\* Line 132: function.call(..) enters the guest.
Call(p) ==
  /\ fault = NoFault
  /\ pc[p] = "call"
  /\ pc' = [pc EXCEPT ![p] = "guest"]
  /\ ncalls' = [ncalls EXCEPT ![p] = @ + 1]
  /\ UNCHANGED <<isSome, map, lock, guard, op, loc, ret, fault, started,
                 generation, regOf, loaded, dangling>>

\* Lines 132-152: the guest returns (a looping guest never does); a trap returns
\* None, results are shaped into Some(i64) or None.
GuestReturn(p) ==
  /\ fault = NoFault
  /\ pc[p] = "guest"
  /\ loc[p].function.body # "loop"
  /\ LET r == GuestCall(loc[p].function, loc[p].function_arguments)
         shaped == ShapeResults(r.results)
     IN IF r.ok
          THEN IF shaped.some
                 THEN Return(p, RetValue(shaped.value))
                 ELSE Return(p, RetNone(""))
          ELSE Return(p, RetNone(ExecutionFault))
  /\ UNCHANGED <<isSome, map, op, fault, started, generation, regOf, loaded, ncalls>>

\* The function borrowed from the map is used after a racing assignment of
\* INSTANCES dropped the map: the access may fault (or go on with what the
\* freed storage still holds, which is what the other actions do).
UseAfterFree(p) ==
  /\ fault = NoFault
  /\ Borrows(p)
  /\ dangling[p]
  /\ Panic(p, "use after free")

(***************************************************************************)
(* ExportedFunctionsForeignDataWrapper, exported_functions.rs.             *)
(***************************************************************************)
HasPgType(ty) == ty \notin {"ExternRef", "FuncRef"}

wasm_type_to_pg_type(ty) ==
  CASE ty = "I32" -> "int4"
    [] ty = "I64" -> "int8"
    [] ty \in {"F32", "F64"} -> "numeric"
    [] ty = "V128" -> "decimal"

RECURSIVE Join(_, _)
\* Vec<&str>::join(","): the pieces of the joined string.
Join(strs, sep) ==
  IF Len(strs) = 0 THEN <<>>
  ELSE IF Len(strs) = 1 THEN <<strs[1]>>
  ELSE <<strs[1], sep>> \o Join(Tail(strs), sep)

PgTypes(tys) == [i \in 1..Len(tys) |-> wasm_type_to_pg_type(tys[i])]

Row(instance_id, export) ==
  [instance_id |-> instance_id, name |-> export.name,
   inputs |-> Join(PgTypes(export.params), ","),
   outputs |-> Join(PgTypes(export.results), ",")]

RECURSIVE FilterMapExports(_, _)
\* exports.iter().filter_map(..): a Row for each Extern::Function, in order.
FilterMapExports(instance_id, exports) ==
  IF exports = <<>> THEN <<>>
  ELSE (IF Head(exports).kind = "Function"
          THEN <<Row(instance_id, Head(exports))>> ELSE <<>>)
       \o FilterMapExports(instance_id, Tail(exports))

RECURSIVE FlatMapInstances(_, _)
\* instances.iter().flat_map(..).collect(), for one iteration order of the map.
FlatMapInstances(m, order) ==
  IF order = <<>> THEN <<>>
  ELSE FilterMapExports(Head(order), m[Head(order)].instance.exports)
       \o FlatMapInstances(m, Tail(order))

\* The orders in which HashMap::iter can yield the keys.
IterOrders(m) ==
  {o \in [1..Cardinality(DOMAIN m) -> DOMAIN m] :
     \A i, j \in 1..Cardinality(DOMAIN m) : i # j => o[i] # o[j]}

\* Some function export has a type that wasm_type_to_pg_type panics on.
PanicsOnType(m) ==
  \E k \in DOMAIN m : \E i \in 1..Len(m[k].instance.exports) :
    LET e == m[k].instance.exports[i]
    IN /\ e.kind = "Function"
       /\ \/ \E j \in 1..Len(e.params) : ~HasPgType(e.params[j])
          \/ \E j \in 1..Len(e.results) : ~HasPgType(e.results[j])

\* begin, lines 46-79: the rows are collected under the read guard, a temporary
\* dropped when the statement ends.
Begin(p) ==
  /\ fault = NoFault
  /\ pc[p] = "collect"
  /\ IF PanicsOnType(map)
       THEN Panic(p, "WASM type has not PG type equivalent")
       ELSE /\ \E order \in IterOrders(map) :
                 loc' = [loc EXCEPT ![p].inner = FlatMapInstances(map, order)]
            /\ \E w \in Dropped(lock, guard[p]) : lock' = w
            /\ guard' = [guard EXCEPT ![p] = "none"]
            /\ pc' = [pc EXCEPT ![p] = "next"]
            /\ UNCHANGED <<isSome, map, op, ret, fault, started, generation, regOf,
                           loaded, ncalls, dangling>>

\* next, lines 25-30: self.inner.pop(); None ends the iteration.
NextRow(p) ==
  /\ fault = NoFault
  /\ pc[p] = "next"
  /\ IF loc[p].inner # <<>>
       THEN /\ loc' = [loc EXCEPT
                         ![p].inner = SubSeq(@, 1, Len(@) - 1),
                         ![p].rows = Append(@, loc[p].inner[Len(loc[p].inner)])]
            /\ UNCHANGED <<pc, ret, lock, guard, dangling>>
       ELSE Return(p, RetRows(loc[p].rows))
  /\ UNCHANGED <<isSome, map, op, fault, started, generation, regOf, loaded, ncalls>>

(***************************************************************************)
(* The callers' inputs and the specifications.                             *)
(***************************************************************************)
SumId == KeyOf(SumBytes)

\* What concurrent callers ask for.
Ops ==
  {LoadOp(f) : f \in Paths}
  \cup {InvokeOp(SumId, "sum", <<I64(0, 2), I64(0, 3)>>),
        InvokeOp(SumId, "sum", <<I64(0, 2)>>),
        InvokeOp(SumId, "spin", <<>>),
        InvokeOp(SumId, "mixed", <<I64(0, 1), I64(0, 1)>>),
        InvokeOp(SumId, "missing", <<>>),
        InvokeOp(UnknownId, "sum", <<I64(0, 2), I64(0, 3)>>)}
  \cup {ListOp}

\* Every step of an operation under way.
Progress(p) ==
  \/ GetInstancesTest(p)
  \/ GetInstancesInit(p)
  \/ Read(p)
  \/ Write(p)
  \/ Open(p)
  \/ ReadToEnd(p)
  \/ Compile(p)
  \/ Instantiate(p)
  \/ Insert(p)
  \/ Get(p)
  \/ CheckArity(p)
  \/ Coerce(p)
  \/ Call(p)
  \/ GuestReturn(p)
  \/ UseAfterFree(p)
  \/ Begin(p)
  \/ NextRow(p)

Next == \E p \in Procs : Start(p, Ops) \/ Progress(p)

Spec == Init /\ [][Next]_vars

(***************************************************************************)
(* Fair scheduling, from the state in which one caller has loaded          *)
(* sum.wasm and returned: INSTANCES is Some from then on, so the           *)
(* assignment in get_instances is never reached again.  A caller whose     *)
(* operation is under way and can take its next step eventually takes it   *)
(* (threads are scheduled; a lock that can be acquired is acquired).       *)
(* Nothing obliges a caller to start a new operation, and nothing makes a  *)
(* looping guest return.  The count of operations started begins again.    *)
(***************************************************************************)
InitLoaded ==
  /\ isSome = TRUE
  /\ map = MapInsert(EmptyMap, SumId,
                     InstanceInfo(InstanceNew(ModuleNew(SumBytes)), "sum.wasm"))
  /\ lock = Unlocked
  /\ guard = [p \in Procs |-> "none"]
  /\ pc = [p \in Procs |-> IF p = 1 THEN "done" ELSE "idle"]
  /\ op = [p \in Procs |-> IF p = 1 THEN LoadOp("sum.wasm") ELSE NoOp]
  /\ loc = [p \in Procs |-> NoLocals]
  /\ ret = [p \in Procs |-> IF p = 1 THEN RetKey(SumId) ELSE Pending]
  /\ fault = NoFault
  /\ started = 0
  /\ generation = 1
  /\ regOf = [p \in Procs |-> IF p = 1 THEN 1 ELSE 0]
  /\ loaded = {<<SumBytes, SumId, 1>>}
  /\ ncalls = [p \in Procs |-> 0]
  /\ dangling = [p \in Procs |-> FALSE]

FairOps ==
  {LoadOp("sum.wasm"), LoadOp("other.wasm"), LoadOp("missing.wasm"),
   InvokeOp(SumId, "sum", <<I64(0, 2), I64(0, 3)>>),
   InvokeOp(SumId, "spin", <<>>),
   ListOp}

FairProgress(p) ==
  \/ GetInstancesTest(p)
  \/ Read(p)
  \/ Write(p)
  \/ Open(p)
  \/ ReadToEnd(p)
  \/ Compile(p)
  \/ Instantiate(p)
  \/ Insert(p)
  \/ Get(p)
  \/ CheckArity(p)
  \/ Coerce(p)
  \/ Call(p)
  \/ GuestReturn(p)
  \/ Begin(p)
  \/ NextRow(p)

FairNext == \E p \in Procs : Start(p, FairOps) \/ FairProgress(p)

FairSpec ==
  InitLoaded /\ [][FairNext]_vars /\ \A p \in Procs : WF_vars(FairProgress(p))

(***************************************************************************)
(* Concurrent loads, succeeding and failing at each step, beside a lookup. *)
(***************************************************************************)
LoadOps ==
  {LoadOp(f) : f \in {"sum.wasm", "imports.wasm", "garbage.wasm", "dir", "missing.wasm"}}
  \cup {InvokeOp(SumId, "missing", <<>>)}

LoadNext ==
  \E p \in Procs :
    \/ Start(p, LoadOps)
    \/ GetInstancesTest(p)
    \/ GetInstancesInit(p)
    \/ Read(p)
    \/ Write(p)
    \/ Open(p)
    \/ ReadToEnd(p)
    \/ Compile(p)
    \/ Instantiate(p)
    \/ Insert(p)
    \/ Get(p)

SpecLoad == Init /\ [][LoadNext]_vars

(***************************************************************************)
(* One caller at the host's entry points invoke_function_0 ..              *)
(* invoke_function_10, lines 163-341.                                      *)
(***************************************************************************)
MaxArity == 10

\* A variant that passes the arguments in the reverse order.
invoke_function_N_reversed(n, instance_id, function_name, argument) ==
  InvokeOp(instance_id, function_name, [i \in 1..n |-> argument[n + 1 - i]])

\* invoke_function_N(instance_id, function_name, argument0, .., argument(N-1))
invoke_function_N(n, instance_id, function_name, argument) ==
  InvokeOp(instance_id, function_name, [i \in 1..n |-> argument[i]])

OtherId == KeyOf(OtherBytes)
RefsId == KeyOf(RefsBytes)

\* The argument tuples argument0 .. argument9 the caller draws from: small
\* values, and values outside the 32-bit range.
ArgumentRows ==
  { [i \in 1..MaxArity |-> I64(0, i + 1)],
    [i \in 1..MaxArity |->
       CASE i % 3 = 1 -> I64(1, 5)
         [] i % 3 = 2 -> I64(-1, -1)
         [] OTHER -> I64(0, MinI32)],
    [i \in 1..MaxArity |-> IF i % 2 = 1 THEN I64(2, -7) ELSE I64(-1, 3)] }

ExportNames(exports) == {exports[i].name : i \in 1..Len(exports)}

\* The instances the caller names, each with the export names it tries on it.
BridgeTargets ==
  {<<SumId, name>> : name \in ExportNames(SumExports) \cup {"missing"}}
  \cup {<<OtherId, name>> : name \in ExportNames(OtherExports) \cup {"sum"}}
  \cup {<<RefsId, name>> : name \in ExportNames(RefsExports)}
  \cup {<<UnknownId, "sum">>}

\* Those tried with every entry point; the others with invoke_function_0 ..
\* invoke_function_3.
SweepTargets ==
  {<<SumId, name>> : name \in {"sum", "answer", "id64", "tenth", "missing"}}
  \cup {<<UnknownId, "sum">>}

BridgeOps ==
  {LoadOp(f) : f \in {"sum.wasm", "other.wasm", "refs.wasm"}}
  \cup {invoke_function_N(n, t[1], t[2], row) :
          n \in 0..MaxArity, t \in SweepTargets, row \in ArgumentRows}
  \cup {invoke_function_N(n, t[1], t[2], row) :
          n \in 0..3, t \in BridgeTargets, row \in ArgumentRows}

Caller == 1

BridgeNext ==
  \/ Start(Caller, BridgeOps)
  \/ GetInstancesTest(Caller)
  \/ GetInstancesInit(Caller)
  \/ Read(Caller)
  \/ Write(Caller)
  \/ Open(Caller)
  \/ ReadToEnd(Caller)
  \/ Compile(Caller)
  \/ Instantiate(Caller)
  \/ Insert(Caller)
  \/ Get(Caller)
  \/ CheckArity(Caller)
  \/ Coerce(Caller)
  \/ Call(Caller)
  \/ GuestReturn(Caller)

SpecBridge == Init /\ [][BridgeNext]_vars

(***************************************************************************)
(* One caller loading modules and scanning the exported_functions foreign  *)
(* table: begin, then next until it gives None.                            *)
(***************************************************************************)
ListOps ==
  {LoadOp(f) : f \in {"sum.wasm", "other.wasm", "refs.wasm"}} \cup {ListOp}

ListNext ==
  \/ Start(Caller, ListOps)
  \/ GetInstancesTest(Caller)
  \/ GetInstancesInit(Caller)
  \/ Read(Caller)
  \/ Write(Caller)
  \/ Open(Caller)
  \/ ReadToEnd(Caller)
  \/ Compile(Caller)
  \/ Instantiate(Caller)
  \/ Insert(Caller)
  \/ Begin(Caller)
  \/ NextRow(Caller)

SpecList == Init /\ [][ListNext]_vars

(***************************************************************************)
(* Callers invoking the same function of the same instance at the same     *)
(* time, with different arguments, beside the load that registers it.      *)
(***************************************************************************)
InvokeOps ==
  {LoadOp("sum.wasm"),
   InvokeOp(SumId, "sum", <<I64(0, 2), I64(0, 3)>>),
   InvokeOp(SumId, "sum", <<I64(0, 7), I64(-1, -8)>>)}

InvokeNext ==
  \E p \in Procs :
    \/ Start(p, InvokeOps)
    \/ GetInstancesTest(p)
    \/ GetInstancesInit(p)
    \/ Read(p)
    \/ Write(p)
    \/ Open(p)
    \/ ReadToEnd(p)
    \/ Compile(p)
    \/ Instantiate(p)
    \/ Insert(p)
    \/ Get(p)
    \/ CheckArity(p)
    \/ Coerce(p)
    \/ Call(p)
    \/ GuestReturn(p)
    \/ UseAfterFree(p)

SpecInvoke == Init /\ [][InvokeNext]_vars

(***************************************************************************)
(* Properties.                                                             *)
(***************************************************************************)
IsLoad(p) == op[p].kind = "new_instance"
IsInvoke(p) == op[p].kind = "invoke_function"
IsList(p) == op[p].kind = "exported_functions"

\* Caller p takes the step.
Steps(p) == pc'[p] # pc[p] \/ loc'[p] # loc[p] \/ (fault' # fault /\ fault'.by = p)

\* C1: while an invoke executes the guest callable it holds no guard of the
\* registry's lock (the shared lock covers the lookup only).
C1_GuestCallOutsideLock ==
  \A p \in Procs : pc[p] = "guest" => guard[p] = "none"

\* C2: under fair scheduling every load that has reached its insert step
\* eventually inserts and returns, and every lookup or iteration that asks for
\* shared access eventually gets it, even when another caller's guest call
\* never returns.
C2_NoIndefiniteBlocking ==
  \A p \in Procs :
    /\ (pc[p] = "lock" /\ IsLoad(p)) ~> (pc[p] = "done" \/ fault # NoFault)
    /\ (pc[p] = "lock" /\ ~IsLoad(p)) ~> (guard[p] = "read" \/ fault # NoFault)

\* C3: there is one registry per process: INSTANCES is assigned at most once,
\* all callers obtain the same registry, and no record of a load that returned
\* is lost to another caller's initialisation.
C3_OneRegistry ==
  /\ generation <= 1
  /\ \A p, q \in Procs : regOf[p] # 0 /\ regOf[q] # 0 => regOf[p] = regOf[q]
  /\ \A x \in loaded : x[2] \in DOMAIN map

\* C4: while a load holds the registry for insertion, no other caller holds it,
\* for insertion or for reading.
C4_WriterExcludesAll ==
  \A p \in Procs : guard[p] = "write" => \A q \in Procs \ {p} : guard[q] = "none"

\* A load of this file fails: at open, read, compile or instantiate.
LoadFails(wasm_file) ==
  \/ ~Files[wasm_file].open
  \/ ~Files[wasm_file].read
  \/ ~ModuleNew(Files[wasm_file].bytes).ok
  \/ ~InstanceNew(ModuleNew(Files[wasm_file].bytes)).ok

\* C5: a load that fails (IoError, CompileError, InstantiationError) returns no
\* identifier to its caller and never ends the process.
C5_LoadFailureRecoverable ==
  \A p \in Procs :
    IsLoad(p) /\ LoadFails(op[p].wasm_file) =>
      /\ fault.by # p
      /\ pc[p] = "done" => ret[p].tag = "None"

\* C6: a load that fails at read, compile or instantiate leaves the registry as
\* it was, and a record appears or changes only by the insert of a load whose
\* read, compile and instantiate all succeeded.
C6_FailedLoadRegistersNothing ==
  [][/\ \A p \in Procs :
          Steps(p) /\ IsLoad(p) /\ LoadFails(op[p].wasm_file) =>
            map' = map /\ isSome' = isSome
     /\ \A k \in DOMAIN map' :
          (k \notin DOMAIN map \/ map'[k] # map[k]) =>
            \E p \in Procs :
              /\ IsLoad(p) /\ pc[p] = "insert" /\ pc'[p] = "done"
              /\ ~LoadFails(op[p].wasm_file)
              /\ k = KeyOf(Files[op[p].wasm_file].bytes)
              /\ map'[k] = InstanceInfo(
                             InstanceNew(ModuleNew(Files[op[p].wasm_file].bytes)),
                             op[p].wasm_file)]_vars

\* A load has failed at instantiation and returned while the registry holds a
\* record.
C6_Witness ==
  \E p \in Procs :
    /\ IsLoad(p) /\ pc[p] = "done"
    /\ ret[p] = RetNone("error instantiating")
    /\ DOMAIN map # {}

\* C7: two loads of the same bytes return the same identifier, and after both
\* the registry holds a record under that identifier.
C7_LoadIdempotent ==
  \A x, y \in loaded :
    x[1] = y[1] /\ x[3] # y[3] => x[2] = y[2] /\ x[2] \in DOMAIN map

\* C8: no entry is ever removed: the set of registered identifiers only grows.
C8_NoEntryRemoved ==
  [][DOMAIN map \subseteq DOMAIN map']_vars

\* C9: every step of an invoke or of an iteration over the exports leaves the
\* registry's keys and records unchanged.
C9_ReadersLeaveRegistryUnchanged ==
  [][\A p \in Procs :
       Steps(p) /\ (IsInvoke(p) \/ IsList(p)) /\ pc[p] \notin {"idle", "done"} =>
         map' = map]_vars

\* C10: an invoke whose argument count differs from the declared parameter
\* count of the function it names returns None after the arity message and
\* never reaches the guest.
C10_ArityMismatchFails ==
  \A p \in Procs :
    IsInvoke(p) /\ op[p].instance_id \in DOMAIN map =>
      LET function == GetFunction(map[op[p].instance_id].instance, op[p].function_name)
      IN function # NoFunction /\ Len(function.params) # Len(op[p].arguments) =>
           /\ ncalls[p] = 0
           /\ pc[p] \notin {"coerce", "call", "guest"}
           /\ pc[p] = "done" => ret[p] = RetNone(ArityMismatch)

\* invoke_function_10 on a function of two parameters has returned None.
C10_Witness ==
  \E p \in Procs :
    /\ IsInvoke(p) /\ pc[p] = "done"
    /\ op[p].function_name = "sum"
    /\ Len(op[p].arguments) = MaxArity
    /\ ret[p] = RetNone(ArityMismatch)
    /\ ncalls[p] = 0

\* The function an invoke names, as its lookup finds it in the registry.
NamedFunction(p) ==
  IF op[p].instance_id \in DOMAIN map
    THEN GetFunction(map[op[p].instance_id].instance, op[p].function_name)
    ELSE NoFunction

\* The parameter types the bridge cannot marshal an integer into.
UnsupportedTypes == {"F32", "F64", "V128", "ExternRef", "FuncRef"}
HasUnsupportedParameter(function) ==
  \E i \in 1..Len(function.params) : function.params[i] \in UnsupportedTypes

\* C11, as stated: an invoke of a function with a floating-point, vector or
\* reference parameter returns None after the unsupported-type message and
\* never reaches the guest, whatever arguments are supplied.
C11_UnsupportedWhateverArguments ==
  \A p \in Procs :
    IsInvoke(p) /\ NamedFunction(p) # NoFunction
      /\ HasUnsupportedParameter(NamedFunction(p)) =>
        /\ ncalls[p] = 0
        /\ pc[p] \notin {"call", "guest"}
        /\ pc[p] = "done" => ret[p] = RetNone(UnsupportedArgumentType)

\* C11, amended: when as many arguments are supplied as the function declares
\* parameters, an invoke of a function with a floating-point, vector or
\* reference parameter, at any position, returns None after the
\* unsupported-type message and never reaches the guest.
C11_UnsupportedParameterFails ==
  \A p \in Procs :
    IsInvoke(p) /\ NamedFunction(p) # NoFunction
      /\ HasUnsupportedParameter(NamedFunction(p))
      /\ Len(NamedFunction(p).params) = Len(op[p].arguments) =>
        /\ ncalls[p] = 0
        /\ pc[p] \notin {"call", "guest"}
        /\ pc[p] = "done" => ret[p] = RetNone(UnsupportedArgumentType)

\* invoke_function_2 on a function whose second parameter is a function
\* reference has returned None after the unsupported-type message.
C11_Witness ==
  \E p \in Procs :
    /\ IsInvoke(p) /\ pc[p] = "done"
    /\ op[p].function_name = "cb"
    /\ NamedFunction(p).params = <<"I32", "FuncRef">>
    /\ Len(op[p].arguments) = 2
    /\ ret[p] = RetNone(UnsupportedArgumentType)
    /\ ncalls[p] = 0

\* The instance exports a function under this name.
ExportsFunction(instance, function_name) ==
  \E i \in 1..Len(instance.exports) :
    instance.exports[i].name = function_name /\ instance.exports[i].kind = "Function"

\* C12: an invoke with an identifier that is not in the registry returns None
\* after the instance-not-found message, an invoke of a name that is not an
\* exported function of the registered instance returns None after the
\* function-not-found message, and neither reaches the guest.
C12_UnknownInstanceOrFunction ==
  \A p \in Procs :
    IsInvoke(p) =>
      /\ op[p].instance_id \notin DOMAIN map =>
           /\ ncalls[p] = 0
           /\ pc[p] \notin {"arity", "coerce", "call", "guest"}
           /\ pc[p] = "done" => ret[p] = RetNone(InstanceNotFound)
      /\ (/\ op[p].instance_id \in DOMAIN map
          /\ ~ExportsFunction(map[op[p].instance_id].instance, op[p].function_name)) =>
           /\ ncalls[p] = 0
           /\ pc[p] \notin {"arity", "coerce", "call", "guest"}
           /\ pc[p] = "done" => ret[p] = RetNone(FunctionNotFound)

\* An invoke of "memory", an export of the registered instance that is not a
\* function, has returned None after the function-not-found message.
C12_Witness ==
  \E p \in Procs :
    /\ IsInvoke(p) /\ pc[p] = "done"
    /\ op[p].instance_id = SumId /\ SumId \in DOMAIN map
    /\ op[p].function_name = "memory"
    /\ ret[p] = RetNone(FunctionNotFound)
    /\ ncalls[p] = 0

\* What the guest gives for the call an invoke makes: the named function on the
\* coerced arguments.
GuestResults(p) ==
  GuestCall(NamedFunction(p),
            CoerceArguments(NamedFunction(p).params, op[p].arguments).values)

\* C13: after a guest call that succeeded, the invoke returns Some(value)
\* exactly when the result list has one element and it is an I32 or an I64; an
\* I32 is sign-extended to 64 bits, an I64 is returned as it is; zero results,
\* several results or one result of another type return None with no error
\* message.
C13_ResultShaping ==
  \A p \in Procs :
    IsInvoke(p) /\ pc[p] = "done" /\ ncalls[p] = 1 /\ GuestResults(p).ok =>
      LET results == GuestResults(p).results
          single == Len(results) = 1 /\ results[1].ty \in {"I32", "I64"}
      IN /\ ret[p].tag = "Some" <=> single
         /\ single /\ results[1].ty = "I32" =>
              ret[p].value = [hi |-> IF results[1].i32 < 0 THEN -1 ELSE 0,
                              lo |-> results[1].i32]
         /\ single /\ results[1].ty = "I64" => ret[p].value = results[1].i64
         /\ ~single => ret[p] = RetNone("")

\* sum(-7, 3) has returned: the guest's I32 result -4 came back as the 64-bit
\* integer -4.
C13_Witness ==
  \E p \in Procs :
    /\ IsInvoke(p) /\ pc[p] = "done" /\ ncalls[p] = 1
    /\ op[p].function_name = "sum"
    /\ GuestResults(p).results = <<ValueI32(-4)>>
    /\ ret[p] = RetValue(I64(-1, -4))

\* The function exports of the registered instances: <<identifier, position>>.
FunctionExports(m) ==
  UNION {{<<k, i>> : i \in {j \in 1..Len(m[k].instance.exports) :
                             m[k].instance.exports[j].kind = "Function"}} :
         k \in DOMAIN m}

\* A function export with a reference type among its parameters or results.
IllTyped(export) ==
  \/ \E i \in 1..Len(export.params) : export.params[i] \in {"ExternRef", "FuncRef"}
  \/ \E i \in 1..Len(export.results) : export.results[i] \in {"ExternRef", "FuncRef"}

\* The translation table of the type tags.
PgName(ty) ==
  CASE ty = "I32" -> "int4"
    [] ty = "I64" -> "int8"
    [] ty = "F32" -> "numeric"
    [] ty = "F64" -> "numeric"
    [] ty = "V128" -> "decimal"
    [] OTHER -> "none"

\* The pieces are the tags of the types, in order, with a comma between two.
Renders(tys, pieces) ==
  /\ Len(pieces) = IF Len(tys) = 0 THEN 0 ELSE 2 * Len(tys) - 1
  /\ \A i \in 1..Len(tys) :
       /\ pieces[2 * i - 1] = PgName(tys[i])
       /\ i > 1 => pieces[2 * i - 2] = ","

\* The row is the descriptor of this export of this instance.
Describes(row, instance_id, export) ==
  /\ row.instance_id = instance_id
  /\ row.name = export.name
  /\ Renders(export.params, row.inputs)
  /\ Renders(export.results, row.outputs)

\* The rows delivered are one descriptor for each wanted export and nothing else.
DeliveredExactly(m, rows, wanted) ==
  /\ \A x \in wanted :
       Cardinality({j \in 1..Len(rows) :
                      Describes(rows[j], x[1], m[x[1]].instance.exports[x[2]])}) = 1
  /\ \A j \in 1..Len(rows) :
       \E x \in wanted : Describes(rows[j], x[1], m[x[1]].instance.exports[x[2]])

\* C14: a scan of the exported functions delivers its descriptors (it does not
\* end before) and, when it ends, has delivered exactly once a descriptor for
\* each function export of each registered instance, none for another export,
\* with the parameter and result types rendered as int4, int8, numeric,
\* decimal and comma-joined in declaration order.
C14_ListExportsExact ==
  \A p \in Procs :
    IsList(p) =>
      /\ fault.by # p
      /\ pc[p] = "done" => DeliveredExactly(map, ret[p].rows, FunctionExports(map))

\* C15: a scan of a registry in which some function export has a reference
\* type among its parameters or results does not end the process, and when it
\* ends it has delivered exactly the descriptors of the function exports
\* without reference types.
C15_ListNeverAborts ==
  \A p \in Procs :
    (/\ IsList(p)
     /\ \E x \in FunctionExports(map) : IllTyped(map[x[1]].instance.exports[x[2]])) =>
      /\ fault.by # p
      /\ pc[p] = "done" =>
           DeliveredExactly(map, ret[p].rows,
             {x \in FunctionExports(map) : ~IllTyped(map[x[1]].instance.exports[x[2]])})

\* A load has returned this identifier.
Registered(instance_id) == \E x \in loaded : x[2] = instance_id

\* Caller q is in an invoke of the same function of the same instance as
\* caller p, with another argument list.
InvokesBeside(p, q) ==
  /\ q # p
  /\ IsInvoke(q) /\ pc[q] \notin {"idle", "done"}
  /\ op[q].instance_id = op[p].instance_id
  /\ op[q].function_name = op[p].function_name
  /\ op[q].arguments # op[p].arguments

\* The sum of the caller's own two arguments, as the guest computes it on 32
\* bits, widened to 64 bits.
OwnSum(p) ==
  LET s == I32WrappingAdd(op[p].arguments[1].lo, op[p].arguments[2].lo)
  IN [hi |-> IF s < 0 THEN -1 ELSE 0, lo |-> s]

\* C16: while another caller invokes the same function of the same registered
\* instance with other arguments, a caller's invoke of sum is not lost (it
\* does not fault) and, when it returns, returns the sum of its own arguments.
C16_NoCrossTalk ==
  [][\A p \in Procs :
       (/\ IsInvoke(p) /\ Steps(p)
        /\ op[p].function_name = "sum" /\ Len(op[p].arguments) = 2
        /\ Registered(op[p].instance_id)
        /\ \E q \in Procs : InvokesBeside(p, q)) =>
         /\ fault'.by # p
         /\ pc'[p] = "done" => ret'[p] = RetValue(OwnSum(p))]_vars

\* invoke_function as a whole, on the registry as it is: what it returns for
\* an argument list (a guest that never returns gives no return at all).
InvokeFunction(m, instance_id, function_name, arguments) ==
  IF instance_id \notin DOMAIN m THEN RetNone(InstanceNotFound)
  ELSE LET function == GetFunction(m[instance_id].instance, function_name)
           coerced == CoerceArguments(function.params, arguments)
           called == GuestCall(function, coerced.values)
           shaped == ShapeResults(called.results)
       IN CASE function = NoFunction -> RetNone(FunctionNotFound)
            [] function # NoFunction /\ ArityDiffers(function.params, arguments) ->
                 RetNone(ArityMismatch)
            [] OTHER ->
                 IF ~coerced.ok THEN RetNone(UnsupportedArgumentType)
                 ELSE IF ~called.ok THEN RetNone(ExecutionFault)
                 ELSE IF shaped.some THEN RetValue(shaped.value)
                 ELSE RetNone("")

\* C17: a call of the entry point invoke_function_N, N in 0..10, is a call of
\* the bridge on the list of its arguments argument0 .. argument(N-1), in that
\* order and of length N: it returns what the bridge returns for that list, and
\* like the bridge it leaves the records of the registry as they are.
C17_FixedArityIsBridge ==
  [][\A p \in Procs :
       IsInvoke(p) /\ Steps(p) =>
         \E n \in 0..MaxArity : \E argument \in ArgumentRows :
           /\ Len(op[p].arguments) = n
           /\ \A i \in 1..n : op[p].arguments[i] = argument[i]
           /\ map' = map
           /\ pc'[p] = "done" /\ pc[p] # "done" =>
                ret'[p] = InvokeFunction(map, op[p].instance_id, op[p].function_name,
                                         [i \in 1..n |-> argument[i]])]_vars

\* invoke_function_10 on the function of ten parameters has returned the
\* guest's result for its tenth argument.
C17_Witness ==
  \E p \in Procs :
    /\ IsInvoke(p) /\ pc[p] = "done"
    /\ op[p].function_name = "tenth"
    /\ Len(op[p].arguments) = MaxArity
    /\ op[p].arguments[MaxArity] = I64(-1, 3)
    /\ ret[p] = RetValue(I64(0, 3))

\* Every declared parameter is an I32 or an I64.
AllInteger(function) ==
  \A i \in 1..Len(function.params) : function.params[i] \in {"I32", "I64"}

\* C18: in an invoke with as many arguments as the function has parameters,
\* all of them I32 or I64, the values handed to the guest are, position by
\* position, the argument itself for an I64 parameter and its low 32 bits (as
\* a signed 32-bit integer) for an I32 parameter; an argument outside the
\* 32-bit range is not rejected: the invoke reaches the guest.
C18_ArgumentCoercion ==
  \A p \in Procs :
    (/\ IsInvoke(p) /\ NamedFunction(p) # NoFunction
     /\ AllInteger(NamedFunction(p))
     /\ Len(NamedFunction(p).params) = Len(op[p].arguments)) =>
      /\ pc[p] \in {"call", "guest"} =>
           /\ Len(loc[p].function_arguments) = Len(op[p].arguments)
           /\ \A i \in 1..Len(op[p].arguments) :
                LET value == loc[p].function_arguments[i]
                IN IF NamedFunction(p).params[i] = "I64"
                     THEN value.ty = "I64" /\ value.i64 = op[p].arguments[i]
                     ELSE value.ty = "I32" /\ value.i32 = op[p].arguments[i].lo
      /\ pc[p] = "done" => ncalls[p] = 1

\* The guest function of ten parameters is running on arguments outside the
\* 32-bit range: its ninth, an I64, is the argument itself, its tenth, an I32,
\* is the low 32 bits of the argument 2^32 + 5.
C18_Witness ==
  \E p \in Procs :
    /\ IsInvoke(p) /\ pc[p] = "guest"
    /\ op[p].function_name = "tenth"
    /\ op[p].arguments[9] = I64(0, MinI32)
    /\ op[p].arguments[10] = I64(1, 5)
    /\ loc[p].function_arguments[9] = ValueI64(I64(0, MinI32))
    /\ loc[p].function_arguments[10] = ValueI32(5)

\* The message of the first check an invoke fails, in the order instance,
\* function, arity, parameter types; "" when it passes all four.
FirstFailure(p) ==
  IF op[p].instance_id \notin DOMAIN map THEN InstanceNotFound
  ELSE IF ~ExportsFunction(map[op[p].instance_id].instance, op[p].function_name)
    THEN FunctionNotFound
  ELSE IF Len(NamedFunction(p).params) # Len(op[p].arguments) THEN ArityMismatch
  ELSE IF HasUnsupportedParameter(NamedFunction(p)) THEN UnsupportedArgumentType
  ELSE ""

\* The order of an invoke's steps.
InvokeOrder ==
  {<<"get_instances", "get_instances_init">>, <<"get_instances", "lock">>,
   <<"get_instances_init", "lock">>, <<"lock", "get">>, <<"get", "arity">>,
   <<"arity", "coerce">>, <<"coerce", "call">>, <<"call", "guest">>}

\* C19: an invoke goes through instance lookup, function lookup, arity
\* comparison, coercion and guest call in that order, each step either going
\* on to the next or returning; it returns after the message of the first
\* check that fails and without a guest call; the guest is entered at most
\* once, and only when all four checks passed.
C19_ValidationOrder ==
  [][\A p \in Procs :
       IsInvoke(p) /\ pc[p] \notin {"idle", "done"} /\ pc'[p] # pc[p] =>
         /\ pc'[p] = "done" \/ <<pc[p], pc'[p]>> \in InvokeOrder
         /\ ncalls'[p] <= 1
         /\ pc'[p] = "guest" => FirstFailure(p) = "" /\ ncalls'[p] = 1
         /\ pc'[p] = "done" =>
              IF FirstFailure(p) # ""
                THEN ret'[p] = RetNone(FirstFailure(p)) /\ ncalls'[p] = 0
                ELSE ncalls'[p] = 1]_vars

\* invoke_function_1 on mixed: (i32, f64) has returned None after the arity
\* message, not the unsupported-type one.
C19_Witness ==
  \E p \in Procs :
    /\ IsInvoke(p) /\ pc[p] = "done"
    /\ op[p].function_name = "mixed"
    /\ NamedFunction(p).params = <<"I32", "F64">>
    /\ Len(op[p].arguments) = 1
    /\ ret[p] = RetNone(ArityMismatch)
    /\ ncalls[p] = 0

====
